---- MODULE Spec2Model ----
(***************************************************************************)
(* Model of components/i2cdev/i2cdev.c: the per-port mutex table, the      *)
(* per-port configuration cache and the read / write transactions that     *)
(* run under the port's mutex.                                             *)
(***************************************************************************)
EXTENDS Integers, Sequences, FiniteSets, TLC

(* ------------------------------------------------------------------ *)
(* Bounds and program constants                                        *)
(* ------------------------------------------------------------------ *)

\* Number of hardware ports (size of locks[] and configs[]).
I2C_NUM_MAX == 2

\* Largest buffer size a caller passes in the sequential specification.
MaxLen == 2

\* Number of mutex objects the heap can hold over one run.
MaxMutex == 3

Ports == 0 .. (I2C_NUM_MAX - 1)

Tasks == {"t1", "t2"}

SeqTasks == {"t1"}

\* The task that brings the layer up and down (app_main).
MainTasks == {"t1"}

NoTask == "none"

Ptrs == {"NULL", "buf"}

(* ------------------------------------------------------------------ *)
(* i2c_config_t and the devices callers use                            *)
(* ------------------------------------------------------------------ *)

I2C_MODE_MASTER == 1

\* A zero-initialised i2c_config_t (static storage).
ZeroCfg ==
    [mode |-> 0, sda_io_num |-> 0, scl_io_num |-> 0,
     sda_pullup_en |-> 0, scl_pullup_en |-> 0, clk_speed |-> 0]

CfgA ==
    [mode |-> 0, sda_io_num |-> 21, scl_io_num |-> 22,
     sda_pullup_en |-> 1, scl_pullup_en |-> 1, clk_speed |-> 100000]

\* CfgA with the mode already set by the caller: differs only in a field
\* cfg_equal does not compare.
CfgAm == [CfgA EXCEPT !.mode = I2C_MODE_MASTER]

CfgB == [CfgA EXCEPT !.clk_speed = 400000]

Cfgs == {ZeroCfg, CfgA, CfgAm, CfgB}

\* uint8_t addresses: two 7-bit ones and one with the top bit set.
Addrs == {60, 127, 200}

\* cfg_equal: field-wise comparison of five fields.
cfg_equal(a, b) ==
    /\ a.scl_io_num = b.scl_io_num
    /\ a.sda_io_num = b.sda_io_num
    /\ a.scl_pullup_en = b.scl_pullup_en
    /\ a.sda_pullup_en = b.sda_pullup_en
    /\ a.clk_speed = b.clk_speed

DummyDev == [port |-> 0, addr |-> 0, cfg |-> ZeroCfg]

\* The arguments of one read or write call.  devp says whether the
\* descriptor pointer is null; p1/s1 are the optional prefix (out_data /
\* out_reg), p2/s2 the mandatory buffer (in_data / out_data).
MkArgs(devp, dev, p1, s1, p2, s2) ==
    [devp |-> devp, dev |-> dev, p1 |-> p1, s1 |-> s1, p2 |-> p2, s2 |-> s2]

DevsOf(ports, addrs, cfgs) ==
    {[port |-> p, addr |-> a, cfg |-> c] : p \in ports, a \in addrs, c \in cfgs}

\* Arguments of the concurrent specifications: devices of one port in every
\* configuration, without prefix, plus one call of each invalid shape.
RWArgs ==
    {MkArgs("dev", d, "NULL", 0, "buf", 1) : d \in DevsOf({0}, {60}, Cfgs)}
    \cup {MkArgs("NULL", DummyDev, "NULL", 0, "buf", 1),
          MkArgs("dev", DummyDev, "NULL", 0, "NULL", 1),
          MkArgs("dev", DummyDev, "NULL", 0, "buf", 0)}

\* Arguments of the life-cycle specification: one device per port.
LifeArgs == {MkArgs("dev", d, "NULL", 0, "buf", 1) : d \in DevsOf({0}, {60}, {CfgA})}

\* Arguments of the two-port specification: one device on each port, in a
\* configuration that needs a setup and in the all-zero one.
PortArgs == {MkArgs("dev", d, "NULL", 0, "buf", 1) : d \in DevsOf(Ports, {60}, {ZeroCfg, CfgA})}

\* Arguments of the sequential specification: every port and address, one
\* configuration, and the full product of pointers and sizes.
SeqArgs ==
    {MkArgs(devp, IF devp = "NULL" THEN DummyDev ELSE d, p1, s1, p2, s2) :
        devp \in {"NULL", "dev"}, d \in DevsOf(Ports, Addrs, {CfgA}),
        p1 \in Ptrs, s1 \in 0 .. MaxLen, p2 \in Ptrs, s2 \in 0 .. MaxLen}

(* ------------------------------------------------------------------ *)
(* State                                                               *)
(* ------------------------------------------------------------------ *)

VARIABLES
    locks,      \* locks[port]: mutex handle, 0 is NULL
    mutex,      \* the mutex objects: state and holder
    configs,    \* configs[port]: the cached i2c_config_t
    driver,     \* the peripheral driver, per port: installed, parameters
    lastTx,     \* per port: configuration and setup outcome of the last transaction
    task        \* per task: position in its call, arguments, locals

vars == <<locks, mutex, configs, driver, lastTx, task>>

NoTx == [valid |-> FALSE, cfg |-> ZeroCfg, ok |-> FALSE]

IdleTask ==
    [pc |-> "idle", op |-> "none", a |-> MkArgs("NULL", DummyDev, "NULL", 0, "NULL", 0),
     res |-> "none", sres |-> "none", xfer |-> "none", cmd |-> <<>>, calls |-> <<>>,
     took |-> FALSE, gives |-> 0, giveOk |-> FALSE, prev |-> NoTx,
     ret |-> "none", i |-> 0]

NoMutex == [st |-> "none", holder |-> NoTask]

FreeMutex == [st |-> "alive", holder |-> NoTask]

\* Static storage before i2cdev_init.
Init ==
    /\ locks = [p \in Ports |-> 0]
    /\ mutex = [h \in 1 .. MaxMutex |-> NoMutex]
    /\ configs = [p \in Ports |-> ZeroCfg]
    /\ driver = [p \in Ports |-> [installed |-> FALSE, hw |-> ZeroCfg]]
    /\ lastTx = [p \in Ports |-> NoTx]
    /\ task = [t \in Tasks |-> IdleTask]

\* The state after one successful i2cdev_init.
InitReady ==
    /\ locks = [p \in Ports |-> p + 1]
    /\ mutex = [h \in 1 .. MaxMutex |-> IF h <= I2C_NUM_MAX THEN FreeMutex ELSE NoMutex]
    /\ configs = [p \in Ports |-> ZeroCfg]
    /\ driver = [p \in Ports |-> [installed |-> FALSE, hw |-> ZeroCfg]]
    /\ lastTx = [p \in Ports |-> NoTx]
    /\ task = [t \in Tasks |-> IdleTask]

\* Mutant: one lock and one cache entry for all ports.
PortOfGlobal(t) == 0

\* The port a task's SEMAPHORE_TAKE / SEMAPHORE_GIVE names: dev->port in a
\* transaction, the loop index in i2cdev_done.
PortOf(t) == IF task[t].op = "done" THEN task[t].i ELSE task[t].a.dev.port

Log(t, fn) == Append(task[t].calls, [fn |-> fn, port |-> PortOf(t)])

(* ------------------------------------------------------------------ *)
(* Command links                                                       *)
(* ------------------------------------------------------------------ *)

\* The byte i2c_master_write_byte receives (uint8_t parameter).
Byte(x) == x % 256

AddrW(addr) == Byte(addr * 2)

\* (addr << 1) | 1: the shifted value is even.
AddrR(addr) == Byte(addr * 2 + 1)

CmdStart == [k |-> "start", v |-> 0, ack |-> "none"]
CmdWriteByte(b) == [k |-> "write_byte", v |-> b, ack |-> "check"]
CmdWrite(n) == [k |-> "write", v |-> n, ack |-> "check"]
CmdRead(n) == [k |-> "read", v |-> n, ack |-> "last_nack"]
CmdStop == [k |-> "stop", v |-> 0, ack |-> "none"]

\* Mutant: the prefix frame depends on the pointer alone.
ReadCmdPtrOnly(a) ==
    (IF a.p1 # "NULL"
        THEN <<CmdStart, CmdWriteByte(AddrW(a.dev.addr)), CmdWrite(a.s1)>>
        ELSE <<>>)
    \o <<CmdStart, CmdWriteByte(AddrR(a.dev.addr)), CmdRead(a.s2), CmdStop>>

\* Lines 125-135: the link i2c_dev_read builds.
ReadCmd(a) ==
    (IF a.p1 # "NULL" /\ a.s1 # 0
        THEN <<CmdStart, CmdWriteByte(AddrW(a.dev.addr)), CmdWrite(a.s1)>>
        ELSE <<>>)
    \o <<CmdStart, CmdWriteByte(AddrR(a.dev.addr)), CmdRead(a.s2), CmdStop>>

\* Mutant: the prefix bytes are queued whenever the pointer is non-null.
WriteCmdPtrOnly(a) ==
    <<CmdStart, CmdWriteByte(AddrW(a.dev.addr))>>
    \o (IF a.p1 # "NULL" THEN <<CmdWrite(a.s1)>> ELSE <<>>)
    \o <<CmdWrite(a.s2), CmdStop>>

\* Lines 157-163: the link i2c_dev_write builds.
WriteCmd(a) ==
    <<CmdStart, CmdWriteByte(AddrW(a.dev.addr))>>
    \o (IF a.p1 # "NULL" /\ a.s1 # 0 THEN <<CmdWrite(a.s1)>> ELSE <<>>)
    \o <<CmdWrite(a.s2), CmdStop>>

BuildCmd(t) == IF task[t].op = "read" THEN ReadCmd(task[t].a) ELSE WriteCmd(task[t].a)

(* ------------------------------------------------------------------ *)
(* Results of the peripheral driver                                    *)
(* ------------------------------------------------------------------ *)

ParamErrs == {"ESP_ERR_INVALID_ARG"}

InstallErrs == {"ESP_ERR_NO_MEM"}

XferErrs == {"ESP_ERR_TIMEOUT"}

\* i2c_param_config(port, &temp): the parameters are applied or refused.
ParamConfigResults(port) == {"ESP_OK"} \cup ParamErrs

\* i2c_driver_install(port, ...): refused when a driver is installed.
DriverInstallResults(port) ==
    IF driver[port].installed THEN {"ESP_FAIL"} ELSE {"ESP_OK"} \cup InstallErrs

\* i2c_master_cmd_begin(port, cmd, ticks): needs an installed driver.
CmdBeginResults(port) ==
    IF driver[port].installed THEN {"ESP_OK"} \cup XferErrs ELSE {"ESP_ERR_INVALID_STATE"}

(* ------------------------------------------------------------------ *)
(* i2c_dev_read / i2c_dev_write                                        *)
(* ------------------------------------------------------------------ *)

NoCrash == \A t \in Tasks : task[t].pc # "crashed"

\* Mutant: the size of the input buffer is not checked.
ReadArgsInvalidNoSize(a) == a.devp = "NULL" \/ a.p2 = "NULL"

\* Line 118: !dev || !in_data || !in_size
ReadArgsInvalid(a) == a.devp = "NULL" \/ a.p2 = "NULL" \/ a.s2 = 0

\* Line 150: !dev || !out_data || !out_size
WriteArgsInvalid(a) == a.devp = "NULL" \/ a.p2 = "NULL" \/ a.s2 = 0

Enter(t, op, a, invalid) ==
    /\ NoCrash
    /\ task[t].pc = "idle"
    /\ task' = [task EXCEPT ![t] =
                  IF invalid
                     THEN [IdleTask EXCEPT !.pc = "ret", !.op = op, !.a = a,
                                           !.ret = "ESP_ERR_INVALID_ARG"]
                     ELSE [IdleTask EXCEPT !.pc = "take", !.op = op, !.a = a]]
    /\ UNCHANGED <<locks, mutex, configs, driver, lastTx>>

\* Entry of i2c_dev_read: argument check, then SEMAPHORE_TAKE.
i2c_dev_read(t, a) == Enter(t, "read", a, ReadArgsInvalid(a))

\* Entry of i2c_dev_write: argument check, then SEMAPHORE_TAKE.
i2c_dev_write(t, a) == Enter(t, "write", a, WriteArgsInvalid(a))

InCall(t) == task[t].op \in {"read", "write"}

\* After SEMAPHORE_TAKE: the transaction sets the port up, i2cdev_done
\* deletes the driver.
SemaphoreTaken(tr, last) ==
    IF tr.op = "done"
       THEN [tr EXCEPT !.pc = "drv_delete", !.took = TRUE]
       ELSE [tr EXCEPT !.pc = "setup", !.took = TRUE, !.prev = last]

\* Mutant: the result of xSemaphoreTake is ignored and the call goes on.
SemaphoreTakeIgnored(tr) == [tr EXCEPT !.pc = "setup", !.took = TRUE]

\* Mutant: the timeout is reported as a generic failure.
SemaphoreTakeFailedAsFail(tr) == [tr EXCEPT !.pc = "ret", !.ret = "ESP_FAIL"]

\* SEMAPHORE_TAKE lines 42-45: return ESP_ERR_TIMEOUT.
SemaphoreTakeFailed(tr) == [tr EXCEPT !.pc = "ret", !.ret = "ESP_ERR_TIMEOUT"]

\* SEMAPHORE_TAKE, xSemaphoreTake returned pdTRUE: the mutex was free.
TakeOk(t) ==
    /\ NoCrash
    /\ task[t].pc = "take"
    /\ LET p == PortOf(t)
           h == locks[p]
       IN /\ h # 0
          /\ mutex[h] = FreeMutex
          /\ mutex' = [mutex EXCEPT ![h].holder = t]
          /\ task' = [task EXCEPT ![t] = SemaphoreTaken(@, lastTx[p])]
    /\ UNCHANGED <<locks, configs, driver, lastTx>>

\* SEMAPHORE_TAKE, xSemaphoreTake returned pdFALSE: the mutex stayed held by
\* another task for the whole wait.
TakeTimeout(t) ==
    /\ NoCrash
    /\ task[t].pc = "take"
    /\ LET h == locks[PortOf(t)]
       IN /\ h # 0
          /\ mutex[h].st = "alive"
          /\ mutex[h].holder \notin {NoTask, t}
    /\ task' = [task EXCEPT ![t] = SemaphoreTakeFailed(@)]
    /\ UNCHANGED <<locks, mutex, configs, driver, lastTx>>

\* res == ESP_OK after i2c_setup_port: the command link is built.
StartTransfer(t, tr) ==
    [tr EXCEPT !.res = "ESP_OK", !.sres = "ESP_OK", !.cmd = BuildCmd(t), !.pc = "cmd_begin"]

\* Mutant: a failed setup returns at once, without SEMAPHORE_GIVE.
SetupFailedNoGive(tr, r) == [tr EXCEPT !.res = r, !.sres = r, !.pc = "ret", !.ret = r]

\* Mutant: the setup error is dropped and the function reports success.
SetupFailedLost(tr, r) == [tr EXCEPT !.res = "ESP_OK", !.sres = r, !.pc = "give"]

\* res != ESP_OK after i2c_setup_port (lines 108, 110, 122-123): the block
\* that transfers is skipped and the lock is given.
SetupFailed(tr, r) == [tr EXCEPT !.res = r, !.sres = r, !.pc = "give"]

\* Mutant: the configuration asked for is recorded whatever the driver said.
ConfigsRecordedAlways(p, cfg, r) ==
    [configs EXCEPT ![p] = [cfg EXCEPT !.mode = I2C_MODE_MASTER]]

\* configs[] when the reconfiguration of port p to cfg ended with result r
\* (lines 107-113): no branch of i2c_setup_port assigns configs[port].
ConfigsAfterSetup(p, cfg, r) == configs

SetupDone(p, cfg, ok) == [lastTx EXCEPT ![p] = [valid |-> TRUE, cfg |-> cfg, ok |-> ok]]

\* i2c_setup_port up to and including i2c_driver_delete.  cfg is &dev->cfg
\* and never null.
i2c_setup_port(t) ==
    /\ NoCrash
    /\ InCall(t)
    /\ task[t].pc = "setup"
    /\ LET p == PortOf(t)
           cfg == task[t].a.dev.cfg
       IN IF cfg_equal(cfg, configs[p])
             THEN /\ task' = [task EXCEPT ![t] = StartTransfer(t, @)]
                  /\ lastTx' = SetupDone(p, cfg, TRUE)
                  /\ UNCHANGED driver
             ELSE /\ driver' = [driver EXCEPT ![p].installed = FALSE]
                  /\ task' = [task EXCEPT ![t].pc = "param_config",
                                          ![t].calls = Log(t, "i2c_driver_delete")]
                  /\ UNCHANGED lastTx
    /\ UNCHANGED <<locks, mutex, configs>>

\* Line 107: i2c_param_config(port, &temp), temp being cfg in master mode.
ParamConfig(t) ==
    /\ NoCrash
    /\ InCall(t)
    /\ task[t].pc = "param_config"
    /\ LET p == PortOf(t)
           cfg == task[t].a.dev.cfg
           temp == [cfg EXCEPT !.mode = I2C_MODE_MASTER]
       IN \E r \in ParamConfigResults(p) :
            IF r = "ESP_OK"
               THEN /\ driver' = [driver EXCEPT ![p].hw = temp]
                    /\ task' = [task EXCEPT ![t].pc = "install",
                                            ![t].calls = Log(t, "i2c_param_config")]
                    /\ UNCHANGED <<lastTx, configs>>
               ELSE /\ task' = [task EXCEPT ![t] =
                                  SetupFailed([@ EXCEPT !.calls = Log(t, "i2c_param_config")], r)]
                    /\ lastTx' = SetupDone(p, cfg, FALSE)
                    /\ configs' = ConfigsAfterSetup(p, cfg, r)
                    /\ UNCHANGED driver
    /\ UNCHANGED <<locks, mutex>>

\* Line 109: i2c_driver_install(port, temp.mode, 0, 0, 0); on success
\* i2c_setup_port returns ESP_OK.  configs[port] is not assigned.
DriverInstall(t) ==
    /\ NoCrash
    /\ InCall(t)
    /\ task[t].pc = "install"
    /\ LET p == PortOf(t)
           cfg == task[t].a.dev.cfg
           logged == [task[t] EXCEPT !.calls = Log(t, "i2c_driver_install")]
       IN \E r \in DriverInstallResults(p) :
            /\ configs' = ConfigsAfterSetup(p, cfg, r)
            /\ IF r = "ESP_OK"
                  THEN /\ driver' = [driver EXCEPT ![p].installed = TRUE]
                       /\ task' = [task EXCEPT ![t] = StartTransfer(t, logged)]
                       /\ lastTx' = SetupDone(p, cfg, TRUE)
                  ELSE /\ task' = [task EXCEPT ![t] = SetupFailed(logged, r)]
                       /\ lastTx' = SetupDone(p, cfg, FALSE)
                       /\ UNCHANGED driver
    /\ UNCHANGED <<locks, mutex>>

\* Line 137 (read): res = i2c_master_cmd_begin(...).
ReadTransferResult(tr, r) == [tr EXCEPT !.res = r, !.xfer = r]

\* Line 164 (write): esp_err_t res = i2c_master_cmd_begin(...) declares a
\* new res in the inner block; the outer res keeps the setup result.
WriteTransferResult(tr, r) == [tr EXCEPT !.xfer = r]

\* i2c_master_cmd_begin, then i2c_cmd_link_delete.
CmdBegin(t) ==
    /\ NoCrash
    /\ InCall(t)
    /\ task[t].pc = "cmd_begin"
    /\ \E r \in CmdBeginResults(PortOf(t)) :
         LET ran == [task[t] EXCEPT !.pc = "give", !.cmd = <<>>,
                        !.calls = Append(@, [fn |-> "i2c_master_cmd_begin",
                                             port |-> PortOf(t), cmd |-> task[t].cmd])]
         IN task' = [task EXCEPT ![t] =
                        IF task[t].op = "read" THEN ReadTransferResult(ran, r)
                                               ELSE WriteTransferResult(ran, r)]
    /\ UNCHANGED <<locks, mutex, configs, driver, lastTx>>

\* After SEMAPHORE_GIVE: the transaction returns res, i2cdev_done destroys
\* the mutex.
SemaphoreGiven(tr) ==
    IF tr.op = "done"
       THEN [tr EXCEPT !.pc = "vdelete", !.gives = @ + 1, !.giveOk = TRUE]
       ELSE [tr EXCEPT !.pc = "ret", !.gives = @ + 1, !.giveOk = TRUE, !.ret = tr.res]

\* Mutant: a failed give falls through to `return res`.
SemaphoreGiveFailedKeepsRes(tr) == [tr EXCEPT !.pc = "ret", !.gives = @ + 1, !.ret = tr.res]

\* SEMAPHORE_GIVE lines 50-53: return ESP_FAIL.
SemaphoreGiveFailed(tr) == [tr EXCEPT !.pc = "ret", !.gives = @ + 1, !.ret = "ESP_FAIL"]

\* SEMAPHORE_GIVE, xSemaphoreGive returned pdTRUE on the mutex the task holds.
GiveOk(t) ==
    /\ NoCrash
    /\ task[t].pc = "give"
    /\ LET h == locks[PortOf(t)]
       IN /\ h # 0
          /\ mutex[h].st = "alive"
          /\ mutex[h].holder = t
          /\ mutex' = [mutex EXCEPT ![h].holder = NoTask]
    /\ task' = [task EXCEPT ![t] = SemaphoreGiven(@)]
    /\ UNCHANGED <<locks, configs, driver, lastTx>>

\* The caller continues after the call returned.
Return(t) ==
    /\ NoCrash
    /\ task[t].pc = "ret"
    /\ task' = [task EXCEPT ![t] = IdleTask]
    /\ UNCHANGED <<locks, mutex, configs, driver, lastTx>>

Transaction(t) ==
    \/ TakeOk(t)
    \/ i2c_setup_port(t)
    \/ ParamConfig(t)
    \/ DriverInstall(t)
    \/ CmdBegin(t)
    \/ GiveOk(t)
    \/ Return(t)

(* ------------------------------------------------------------------ *)
(* i2cdev_init / i2cdev_done and the misuse of mutex handles           *)
(* ------------------------------------------------------------------ *)

\* Entry of i2cdev_init: i = 0.
i2cdev_init(t) ==
    /\ NoCrash
    /\ t \in MainTasks
    /\ task[t].pc = "idle"
    /\ task' = [task EXCEPT ![t] = [IdleTask EXCEPT !.pc = "create", !.op = "init"]]
    /\ UNCHANGED <<locks, mutex, configs, driver, lastTx>>

\* What xSemaphoreCreateMutex can return: NULL, the next unused block of
\* the heap, or a block freed by vSemaphoreDelete.
CreateMutexResults ==
    LET unused == {h \in 1 .. MaxMutex : mutex[h].st = "none"}
    IN {0} \cup {h \in unused : \A g \in unused : h <= g}
           \cup {h \in 1 .. MaxMutex : mutex[h].st = "deleted"}

\* Lines 61-66: one iteration of the loop of i2cdev_init.
InitCreate(t) ==
    /\ NoCrash
    /\ task[t].pc = "create"
    /\ LET i == task[t].i
       IN \E h \in CreateMutexResults :
            /\ locks' = [locks EXCEPT ![i] = h]
            /\ IF h = 0
                  THEN /\ task' = [task EXCEPT ![t].pc = "ret", ![t].ret = "ESP_FAIL"]
                       /\ UNCHANGED mutex
                  ELSE /\ mutex' = [mutex EXCEPT ![h] = FreeMutex]
                       /\ task' = [task EXCEPT ![t] =
                                     IF i + 1 < I2C_NUM_MAX
                                        THEN [@ EXCEPT !.i = i + 1]
                                        ELSE [@ EXCEPT !.i = i + 1, !.pc = "ret",
                                                       !.ret = "ESP_OK"]]
    /\ UNCHANGED <<configs, driver, lastTx>>

\* Entry of i2cdev_done: i = 0.
i2cdev_done(t) ==
    /\ NoCrash
    /\ t \in MainTasks
    /\ task[t].pc = "idle"
    /\ task' = [task EXCEPT ![t] = [IdleTask EXCEPT !.pc = "check", !.op = "done"]]
    /\ UNCHANGED <<locks, mutex, configs, driver, lastTx>>

\* Lines 74-76: the loop test and `if (!locks[i]) continue`.
DoneCheck(t) ==
    /\ NoCrash
    /\ task[t].pc = "check"
    /\ LET i == task[t].i
       IN task' = [task EXCEPT ![t] =
                     IF i >= I2C_NUM_MAX THEN [@ EXCEPT !.pc = "ret", !.ret = "ESP_OK"]
                     ELSE IF locks[i] = 0 THEN [@ EXCEPT !.i = i + 1]
                     ELSE [@ EXCEPT !.pc = "take"]]
    /\ UNCHANGED <<locks, mutex, configs, driver, lastTx>>

\* Line 79: i2c_driver_delete(i).
DoneDriverDelete(t) ==
    /\ NoCrash
    /\ task[t].pc = "drv_delete"
    /\ driver' = [driver EXCEPT ![task[t].i].installed = FALSE]
    /\ task' = [task EXCEPT ![t].pc = "give", ![t].calls = Log(t, "i2c_driver_delete")]
    /\ UNCHANGED <<locks, mutex, configs, lastTx>>

\* Line 81: vSemaphoreDelete(locks[i]); locks[i] keeps the handle.  Deleting
\* freed memory again has no defined effect: here none (or a crash, below).
SemaphoreDelete(t) ==
    /\ NoCrash
    /\ task[t].pc = "vdelete"
    /\ LET i == task[t].i
           h == locks[i]
       IN /\ h # 0
          /\ mutex' = [mutex EXCEPT ![h] = [st |-> "deleted", holder |-> NoTask]]
          /\ task' = [task EXCEPT ![t].pc = "check", ![t].i = i + 1]
    /\ UNCHANGED <<locks, configs, driver, lastTx>>

\* xSemaphoreTake on a destroyed mutex reads freed memory: it may report
\* success or a timeout.
TakeStale(t) ==
    /\ NoCrash
    /\ task[t].pc = "take"
    /\ LET p == PortOf(t)
           h == locks[p]
       IN /\ h # 0
          /\ mutex[h].st = "deleted"
          /\ \E ok \in BOOLEAN :
               task' = [task EXCEPT ![t] =
                          IF ok THEN SemaphoreTaken(@, lastTx[p])
                                ELSE SemaphoreTakeFailed(@)]
    /\ UNCHANGED <<locks, mutex, configs, driver, lastTx>>

\* xSemaphoreGive returned pdFALSE: locks[port] now names a live mutex
\* nobody holds (i2cdev_init replaced the handle during the call).
GiveFail(t) ==
    /\ NoCrash
    /\ task[t].pc = "give"
    /\ LET h == locks[PortOf(t)]
       IN /\ h # 0
          /\ mutex[h] = FreeMutex
    /\ task' = [task EXCEPT ![t] = SemaphoreGiveFailed(@)]
    /\ UNCHANGED <<locks, mutex, configs, driver, lastTx>>

\* xSemaphoreGive on a live mutex another task holds: without assertions the
\* mutex is released from under its holder.
GiveOther(t) ==
    /\ NoCrash
    /\ task[t].pc = "give"
    /\ LET h == locks[PortOf(t)]
       IN /\ h # 0
          /\ mutex[h].st = "alive"
          /\ mutex[h].holder \notin {NoTask, t}
          /\ mutex' = [mutex EXCEPT ![h].holder = NoTask]
    /\ task' = [task EXCEPT ![t] = SemaphoreGiven(@)]
    /\ UNCHANGED <<locks, configs, driver, lastTx>>

\* xSemaphoreGive on a destroyed mutex: it may report success or failure.
GiveStale(t) ==
    /\ NoCrash
    /\ task[t].pc = "give"
    /\ LET h == locks[PortOf(t)]
       IN /\ h # 0
          /\ mutex[h].st = "deleted"
    /\ \E ok \in BOOLEAN :
         task' = [task EXCEPT ![t] = IF ok THEN SemaphoreGiven(@)
                                          ELSE SemaphoreGiveFailed(@)]
    /\ UNCHANGED <<locks, mutex, configs, driver, lastTx>>

\* A null handle, freed memory or (with assertions) a mutex held by another
\* task stops the system.
CanCrash(t) ==
    LET h == locks[PortOf(t)]
        st == IF h = 0 THEN "null" ELSE mutex[h].st
        holder == IF h = 0 THEN NoTask ELSE mutex[h].holder
    IN \/ /\ task[t].pc \in {"take", "give", "vdelete"}
          /\ st \in {"null", "deleted"}
       \/ /\ task[t].pc = "give"
          /\ st = "alive"
          /\ holder \notin {NoTask, t}

\* The panic handler stops every task; nothing of the run survives it.
Crash(t) ==
    /\ NoCrash
    /\ CanCrash(t)
    /\ task' = [u \in Tasks |-> [IdleTask EXCEPT !.pc = "crashed"]]
    /\ locks' = [p \in Ports |-> 0]
    /\ mutex' = [h \in 1 .. MaxMutex |-> NoMutex]
    /\ configs' = [p \in Ports |-> ZeroCfg]
    /\ driver' = [p \in Ports |-> [installed |-> FALSE, hw |-> ZeroCfg]]
    /\ lastTx' = [p \in Ports |-> NoTx]

LifeCycle(t) ==
    \/ i2cdev_init(t)
    \/ InitCreate(t)
    \/ i2cdev_done(t)
    \/ DoneCheck(t)
    \/ DoneDriverDelete(t)
    \/ SemaphoreDelete(t)
    \/ TakeStale(t)
    \/ GiveFail(t)
    \/ GiveOther(t)
    \/ GiveStale(t)
    \/ Crash(t)

(* ------------------------------------------------------------------ *)
(* Specifications                                                      *)
(* ------------------------------------------------------------------ *)

\* One task, after a successful i2cdev_init, calling with every argument.
NextSeq ==
    \E t \in SeqTasks :
        \/ \E a \in SeqArgs : i2c_dev_read(t, a)
        \/ \E a \in SeqArgs : i2c_dev_write(t, a)
        \/ Transaction(t)

SpecSeq == InitReady /\ [][NextSeq]_vars

\* Concurrent tasks, after a successful i2cdev_init, reading and writing.
NextRW ==
    \E t \in Tasks :
        \/ \E a \in RWArgs : i2c_dev_read(t, a)
        \/ \E a \in RWArgs : i2c_dev_write(t, a)
        \/ TakeTimeout(t)
        \/ Transaction(t)

SpecRW == InitReady /\ [][NextRW]_vars

\* Concurrent tasks, after a successful i2cdev_init, reading and writing
\* devices of both ports.
NextPorts ==
    \E t \in Tasks :
        \/ \E a \in PortArgs : i2c_dev_read(t, a)
        \/ \E a \in PortArgs : i2c_dev_write(t, a)
        \/ TakeTimeout(t)
        \/ Transaction(t)

SpecPorts == InitReady /\ [][NextPorts]_vars

\* From static storage on: the main task calls i2cdev_init and i2cdev_done
\* in any order while the other tasks read and write.
Next ==
    \E t \in Tasks :
        \/ \E a \in LifeArgs : t \notin MainTasks /\ i2c_dev_read(t, a)
        \/ \E a \in LifeArgs : t \notin MainTasks /\ i2c_dev_write(t, a)
        \/ TakeTimeout(t)
        \/ Transaction(t)
        \/ LifeCycle(t)

Spec == Init /\ [][Next]_vars

(* ------------------------------------------------------------------ *)
(* Properties                                                          *)
(* ------------------------------------------------------------------ *)

\* Between SEMAPHORE_TAKE and SEMAPHORE_GIVE of a transaction.
Critical(t) == InCall(t) /\ task[t].pc \in {"setup", "param_config", "install", "cmd_begin", "give"}

Reconfiguring(t) == InCall(t) /\ task[t].pc \in {"param_config", "install"}

Transferring(t) == InCall(t) /\ task[t].pc = "cmd_begin"

OnPort(t, p) == task[t].a.dev.port = p

HeldBy(t) == {h \in 1 .. MaxMutex : mutex[h].st = "alive" /\ mutex[h].holder = t}

\* C1: with tasks reading and writing concurrently on devices of one port,
\* at most one task is between taking and giving the port's lock, so at most
\* one command sequence and at most one reconfiguration is in progress on
\* the port, and the task in that section is the holder of the port's lock.
C1_Serialized ==
    \A p \in Ports :
        /\ Cardinality({t \in Tasks : Critical(t) /\ OnPort(t, p)}) <= 1
        /\ Cardinality({t \in Tasks : Transferring(t) /\ OnPort(t, p)}) <= 1
        /\ Cardinality({t \in Tasks : Reconfiguring(t) /\ OnPort(t, p)}) <= 1
        /\ \A t \in Tasks : Critical(t) /\ OnPort(t, p) => mutex[locks[p]].holder = t

\* A task executes its command sequence while another task waits for the
\* lock of the same port.
C1_Witness ==
    \E t, u \in Tasks :
        /\ t # u
        /\ Transferring(t)
        /\ InCall(u) /\ task[u].pc = "take"
        /\ task[u].a.dev.port = task[t].a.dev.port
        /\ task[u].a.dev.cfg # task[t].a.dev.cfg

\* C2: a read or write that acquired the port's lock has given it exactly
\* once when it returns, whatever the outcome (success, setup failure,
\* transfer failure), and has not given it before; after the return the task
\* holds no lock, and a port nobody is transacting on has a free lock.
C2_LockReleasedOnce ==
    /\ \A t \in Tasks :
          /\ InCall(t) /\ task[t].pc = "ret" /\ task[t].took
                => task[t].gives = 1 /\ task[t].giveOk
          /\ Critical(t) => task[t].gives = 0
          /\ ~Critical(t) => HeldBy(t) = {}
    /\ \A p \in Ports :
          (\A t \in Tasks : ~(Critical(t) /\ OnPort(t, p))) => mutex[locks[p]] = FreeMutex

\* One call returned after a failed setup and another after a failed
\* transfer; both gave the lock, which is free again.
C2_Witness ==
    \E t, u \in Tasks :
        /\ InCall(t) /\ task[t].pc = "ret" /\ task[t].sres \in InstallErrs
        /\ task[t].gives = 1
        /\ InCall(u) /\ task[u].pc = "ret" /\ task[u].xfer \in XferErrs
        /\ task[u].gives = 1
        /\ task[u].a.dev.port = task[t].a.dev.port
        /\ mutex[locks[task[t].a.dev.port]] = FreeMutex

\* C3: a read or write whose command sequence failed with error e, and
\* whose lock release succeeded, returns e; it returns ESP_OK only when the
\* command sequence was executed successfully.
C3_TransferErrorReturned ==
    \A t \in Tasks :
        InCall(t) /\ task[t].pc = "ret" /\ task[t].giveOk
            => /\ task[t].xfer \notin {"none", "ESP_OK"} => task[t].ret = task[t].xfer
               /\ task[t].ret = "ESP_OK" => task[t].xfer = "ESP_OK"

ReconfigCalls == {"i2c_driver_delete", "i2c_param_config", "i2c_driver_install"}

CallNames(t) == [k \in 1 .. Len(task[t].calls) |-> task[t].calls[k].fn]

\* C4: a transaction whose configuration is field-wise equal to that of
\* the previous transaction on the port, the previous one's setup having
\* succeeded, calls none of i2c_driver_delete, i2c_param_config and
\* i2c_driver_install.
C4_CacheHit ==
    \A t \in Tasks :
        /\ InCall(t) /\ task[t].took
        /\ task[t].prev.valid /\ task[t].prev.ok
        /\ cfg_equal(task[t].prev.cfg, task[t].a.dev.cfg)
        => \A k \in 1 .. Len(task[t].calls) : task[t].calls[k].fn \notin ReconfigCalls

\* C5: a transaction whose configuration differs, in one of the five
\* compared fields, from that of the previous transaction on the port (set
\* up successfully) has made exactly the calls i2c_driver_delete,
\* i2c_param_config, i2c_driver_install, in this order, when it reaches
\* i2c_master_cmd_begin.
C5_ReconfigOnChange ==
    \A t \in Tasks :
        /\ InCall(t) /\ task[t].pc = "cmd_begin"
        /\ task[t].prev.valid /\ task[t].prev.ok
        /\ ~cfg_equal(task[t].prev.cfg, task[t].a.dev.cfg)
        => CallNames(t) = <<"i2c_driver_delete", "i2c_param_config", "i2c_driver_install">>

\* The calls the argument check must reject: no descriptor, no buffer, or
\* a buffer of size zero.
Rejected(a) == a.devp = "NULL" \/ a.p2 = "NULL" \/ a.s2 = 0

Untouched(t) ==
    /\ ~task[t].took
    /\ task[t].gives = 0
    /\ task[t].calls = <<>>
    /\ task[t].cmd = <<>>
    /\ task[t].sres = "none"
    /\ task[t].xfer = "none"

\* C6: i2c_dev_read and i2c_dev_write called with a null descriptor, a null
\* buffer (in_data / out_data) or a zero size return ESP_ERR_INVALID_ARG at
\* once: no lock taken or given, no driver call, and the step leaves locks,
\* mutexes, cached configurations and driver as they were.
C6_InvalidArgument ==
    /\ [](\A t \in Tasks :
            InCall(t) /\ Rejected(task[t].a)
                => /\ task[t].pc = "ret"
                   /\ task[t].ret = "ESP_ERR_INVALID_ARG"
                   /\ Untouched(t))
    /\ [][\A t \in Tasks :
            task[t].pc = "idle" /\ task'[t].pc # "idle" /\ Rejected(task'[t].a)
                => UNCHANGED <<locks, mutex, configs, driver, lastTx>>]_vars

\* A read with a descriptor and a buffer but a size of zero has returned.
C6_Witness ==
    \E t \in Tasks :
        /\ task[t].op = "read" /\ task[t].pc = "ret"
        /\ task[t].a.devp = "dev" /\ task[t].a.p2 = "buf" /\ task[t].a.s2 = 0
        /\ task[t].ret = "ESP_ERR_INVALID_ARG"

\* C7: a call that did not get the lock within the timeout returns
\* ESP_ERR_TIMEOUT having made no driver call, built no command link and
\* given no lock; the step changes neither the cache nor the mutex, which
\* another task holds before and after.
C7_LockTimeout ==
    /\ [](\A t \in Tasks :
            InCall(t) /\ task[t].pc = "ret" /\ ~Rejected(task[t].a) /\ ~task[t].took
                => task[t].ret = "ESP_ERR_TIMEOUT" /\ Untouched(t))
    /\ [][\A t \in Tasks :
            InCall(t) /\ task[t].pc = "take" /\ task'[t].pc = "ret"
                => /\ UNCHANGED <<locks, mutex, configs, driver, lastTx>>
                   /\ mutex[locks[task[t].a.dev.port]].holder \in Tasks \ {t}]_vars

\* A call timed out while the other task is inside its transaction.
C7_Witness ==
    \E t, u \in Tasks :
        /\ InCall(t) /\ task[t].pc = "ret" /\ task[t].ret = "ESP_ERR_TIMEOUT"
        /\ ~task[t].took
        /\ Critical(u) /\ task[u].a.dev.port = task[t].a.dev.port
        /\ mutex[locks[task[u].a.dev.port]].holder = u

\* C8: when i2c_param_config or i2c_driver_install fails with e, the call
\* builds no command link and never calls i2c_master_cmd_begin, gives the
\* lock and returns e, in i2c_dev_read and in i2c_dev_write.
C8_ConfigError ==
    \A t \in Tasks :
        InCall(t) /\ task[t].sres \notin {"none", "ESP_OK"}
            => /\ task[t].sres \in ParamErrs \cup InstallErrs
               /\ task[t].cmd = <<>>
               /\ task[t].xfer = "none"
               /\ \A k \in 1 .. Len(task[t].calls) :
                     task[t].calls[k].fn # "i2c_master_cmd_begin"
               /\ task[t].pc \in {"give", "ret"}
               /\ task[t].pc = "ret"
                     => /\ task[t].gives = 1 /\ task[t].giveOk
                        /\ task[t].ret = task[t].sres
                        /\ HeldBy(t) = {}

\* A write returned the error of i2c_driver_install and a read that of
\* i2c_param_config.
C8_Witness ==
    \E t, u \in Tasks :
        /\ task[t].op = "write" /\ task[t].pc = "ret" /\ task[t].ret \in InstallErrs
        /\ CallNames(t) = <<"i2c_driver_delete", "i2c_param_config", "i2c_driver_install">>
        /\ task[u].op = "read" /\ task[u].pc = "ret" /\ task[u].ret \in ParamErrs
        /\ CallNames(u) = <<"i2c_driver_delete", "i2c_param_config">>

\* C9: when giving the lock fails at the end of a read or write, the call
\* returns ESP_FAIL whatever result it had captured, after a single give.
C9_ReleaseError ==
    \A t \in Tasks :
        InCall(t) /\ task[t].gives > 0 /\ ~task[t].giveOk
            => task[t].pc = "ret" /\ task[t].ret = "ESP_FAIL" /\ task[t].gives = 1

\* The give failed in a read whose transfer had failed with another error.
C9_Witness ==
    \E t \in Tasks :
        /\ task[t].op = "read" /\ task[t].pc = "ret"
        /\ task[t].gives = 1 /\ ~task[t].giveOk
        /\ task[t].res \in XferErrs /\ task[t].res # "ESP_FAIL"
        /\ task[t].ret = "ESP_FAIL"

\* The sequence a read must hand to the driver, element by element.
ReadShape(c, a) ==
    LET prefix == a.p1 # "NULL" /\ a.s1 > 0
        off == IF prefix THEN 3 ELSE 0
        w == (2 * a.dev.addr) % 256
    IN /\ Len(c) = off + 4
       /\ prefix => /\ c[1] = [k |-> "start", v |-> 0, ack |-> "none"]
                     /\ c[2] = [k |-> "write_byte", v |-> w, ack |-> "check"]
                     /\ c[3] = [k |-> "write", v |-> a.s1, ack |-> "check"]
       /\ c[off + 1] = [k |-> "start", v |-> 0, ack |-> "none"]
       /\ c[off + 2] = [k |-> "write_byte", v |-> w + 1, ack |-> "check"]
       /\ c[off + 3] = [k |-> "read", v |-> a.s2, ack |-> "last_nack"]
       /\ c[off + 4] = [k |-> "stop", v |-> 0, ack |-> "none"]
       /\ Cardinality({k \in 1 .. Len(c) : c[k].k = "stop"}) = 1
       /\ \A k \in 1 .. Len(c) : c[k].k = "write" => c[k].v > 0

\* C10: the command sequence of i2c_dev_read, as built and as passed to
\* i2c_master_cmd_begin: with a prefix (pointer non-null and size nonzero)
\* start, write(addr<<1), write(prefix), then always start,
\* write((addr<<1)|1), read(in_size, last byte NACK), stop; without a prefix
\* the first frame is absent; a single stop, at the end.
C10_ReadSequence ==
    \A t \in Tasks :
        task[t].op = "read"
            => /\ task[t].pc = "cmd_begin" => ReadShape(task[t].cmd, task[t].a)
               /\ \A k \in 1 .. Len(task[t].calls) :
                     task[t].calls[k].fn = "i2c_master_cmd_begin"
                        => ReadShape(task[t].calls[k].cmd, task[t].a)

\* A read with a two-byte prefix at an address whose shift overflows a
\* byte is about to be executed.
C10_Witness ==
    \E t \in Tasks :
        /\ task[t].op = "read" /\ task[t].pc = "cmd_begin"
        /\ task[t].a.p1 = "buf" /\ task[t].a.s1 = 2 /\ task[t].a.s2 = 1
        /\ task[t].a.dev.addr = 200
        /\ Len(task[t].cmd) = 7

\* The sequence a write must hand to the driver, element by element.
WriteShape(c, a) ==
    LET prefix == a.p1 # "NULL" /\ a.s1 > 0
        off == IF prefix THEN 1 ELSE 0
        w == (2 * a.dev.addr) % 256
    IN /\ Len(c) = off + 4
       /\ c[1] = [k |-> "start", v |-> 0, ack |-> "none"]
       /\ c[2] = [k |-> "write_byte", v |-> w, ack |-> "check"]
       /\ prefix => c[3] = [k |-> "write", v |-> a.s1, ack |-> "check"]
       /\ c[off + 3] = [k |-> "write", v |-> a.s2, ack |-> "check"]
       /\ c[off + 4] = [k |-> "stop", v |-> 0, ack |-> "none"]
       /\ Cardinality({k \in 1 .. Len(c) : c[k].k = "start"}) = 1
       /\ Cardinality({k \in 1 .. Len(c) : c[k].k = "stop"}) = 1
       /\ \A k \in 1 .. Len(c) : c[k].k = "write" => c[k].v > 0

\* C11: the command sequence of i2c_dev_write, as built and as passed to
\* i2c_master_cmd_begin, is start, write(addr<<1, ack checked), the prefix
\* bytes only if the prefix pointer is non-null and its size nonzero, the
\* data bytes, stop, with exactly one start and one stop; with a null or
\* zero-length prefix it is start, write(addr<<1), write(data), stop.
C11_WriteSequence ==
    \A t \in Tasks :
        task[t].op = "write"
            => /\ task[t].pc = "cmd_begin" => WriteShape(task[t].cmd, task[t].a)
               /\ \A k \in 1 .. Len(task[t].calls) :
                     task[t].calls[k].fn = "i2c_master_cmd_begin"
                        => WriteShape(task[t].calls[k].cmd, task[t].a)

\* A write with a non-null prefix pointer of size zero and two data bytes
\* has been executed as the four-element sequence.
C11_Witness ==
    \E t \in Tasks :
        /\ task[t].op = "write" /\ task[t].pc = "give"
        /\ task[t].a.p1 = "buf" /\ task[t].a.s1 = 0 /\ task[t].a.s2 = 2
        /\ task[t].a.dev.addr = 200
        /\ \E k \in 1 .. Len(task[t].calls) :
              /\ task[t].calls[k].fn = "i2c_master_cmd_begin"
              /\ Len(task[t].calls[k].cmd) = 4

\* C12: when i2cdev_init returns, it reports ESP_OK exactly when every port
\* has a live mutex of its own; a failure is ESP_FAIL at the port whose
\* creation failed, and then no port before it is left with a mutex this
\* call created (creation is all-or-nothing).
C12_InitAllOrNothing ==
    \A t \in Tasks :
        task[t].op = "init" /\ task[t].pc = "ret"
            => /\ task[t].ret = "ESP_OK"
                    <=> /\ \A p \in Ports : locks[p] # 0 /\ mutex[locks[p]].st = "alive"
                        /\ \A p, q \in Ports : p # q => locks[p] # locks[q]
               /\ task[t].ret # "ESP_OK"
                    => /\ task[t].ret = "ESP_FAIL"
                       /\ locks[task[t].i] = 0
                       /\ \A p \in Ports : p < task[t].i => locks[p] = 0

InDone(t) == task[t].op = "done"

\* C13: i2cdev_done handles a port with a non-null handle in the order
\* take, i2c_driver_delete, give, destroy; while it is at i2c_driver_delete
\* it holds the live mutex of that port and no read or write is inside its
\* transaction on the port; it makes driver calls only for ports whose
\* handle is non-null, and skipping a port is no error.
C13_DoneOrder ==
    \A t \in Tasks :
        InDone(t)
            => /\ task[t].pc = "drv_delete"
                    => /\ task[t].took /\ task[t].gives = Len(task[t].calls)
                       /\ locks[task[t].i] # 0
                       /\ mutex[locks[task[t].i]].st = "alive"
                       /\ mutex[locks[task[t].i]].holder = t
                       /\ \A u \in Tasks : ~(Critical(u) /\ OnPort(u, task[t].i))
               /\ task[t].pc = "give" => task[t].gives + 1 = Len(task[t].calls)
               /\ task[t].pc = "vdelete" => task[t].gives = Len(task[t].calls)
               /\ \A k \in 1 .. Len(task[t].calls) :
                     /\ task[t].calls[k].fn = "i2c_driver_delete"
                     /\ locks[task[t].calls[k].port] # 0
               /\ task[t].pc = "ret" /\ task[t].calls = <<>> /\ ~task[t].took
                    => task[t].ret \in {"ESP_OK", "ESP_ERR_TIMEOUT"}

\* The port of the call a task is in, or enters with this step.
CallPort(t) == IF task[t].pc = "idle" THEN task'[t].a.dev.port ELSE task[t].a.dev.port

\* C14: a read or write on port p logs driver calls for p only; a call
\* waiting for the lock of q finds it free unless a transaction on q itself
\* is running; every step of the call leaves the lock handle, the mutex, the
\* cached configuration and the driver of every other port as they were; and
\* a call that times out does so on a mutex held by a transaction on its own
\* port.
C14_PortsIndependent ==
    /\ [](\A t \in Tasks :
            InCall(t)
                => /\ \A k \in 1 .. Len(task[t].calls) :
                         task[t].calls[k].port = task[t].a.dev.port
                   /\ Critical(t) => mutex[locks[task[t].a.dev.port]].holder = t
                   /\ task[t].pc = "take"
                      /\ (\A u \in Tasks : ~(Critical(u) /\ OnPort(u, task[t].a.dev.port)))
                         => mutex[locks[task[t].a.dev.port]] = FreeMutex)
    /\ [][\A t \in Tasks :
            task'[t] # task[t] /\ (InCall(t) \/ task'[t].op \in {"read", "write"})
                => /\ \A q \in Ports \ {CallPort(t)} :
                         /\ locks'[q] = locks[q]
                         /\ mutex'[locks[q]] = mutex[locks[q]]
                         /\ configs'[q] = configs[q]
                         /\ driver'[q] = driver[q]
                         /\ lastTx'[q] = lastTx[q]
                   /\ task[t].pc = "take" /\ task'[t].pc = "ret"
                         => \E u \in Tasks \ {t} :
                               /\ Critical(u) /\ OnPort(u, CallPort(t))
                               /\ mutex[locks[CallPort(t)]].holder = u]_vars

\* One task is executing its command sequence on port 0 and the other has
\* taken the lock of port 1 and is executing its own.
C14_Witness ==
    \E t, u \in Tasks :
        /\ Transferring(t) /\ OnPort(t, 0) /\ mutex[locks[0]].holder = t
        /\ Transferring(u) /\ OnPort(u, 1) /\ mutex[locks[1]].holder = u
        /\ task[u].calls # <<>>

\* C15: when i2c_setup_port has returned after a reconfiguration in which
\* i2c_param_config and i2c_driver_install both succeeded, configs[port] is
\* field-wise equal to the configuration asked for, in master mode.
C15_CacheStored ==
    \A t \in Tasks :
        /\ InCall(t) /\ task[t].pc = "cmd_begin"
        /\ CallNames(t) = <<"i2c_driver_delete", "i2c_param_config", "i2c_driver_install">>
        => /\ cfg_equal(task[t].a.dev.cfg, configs[task[t].a.dev.port])
           /\ configs[task[t].a.dev.port].mode = I2C_MODE_MASTER

\* The setup of the call failed: i2c_param_config or i2c_driver_install
\* returned an error.
SetupError(tr) == tr.sres \notin {"none", "ESP_OK"}

\* C16: no step of an i2c_setup_port that ends in an error changes
\* configs[port] (the failing step included), and a transaction that follows
\* a failed setup with a field-wise equal configuration is not a cache hit:
\* it starts the reconfiguration again, and reaches i2c_master_cmd_begin
\* only after the full delete / param_config / install cycle.
C16_FailureNotCached ==
    /\ [](\A t \in Tasks :
            /\ InCall(t) /\ task[t].took /\ task[t].pc # "setup"
            /\ task[t].prev.valid /\ ~task[t].prev.ok
            /\ cfg_equal(task[t].prev.cfg, task[t].a.dev.cfg)
            => /\ task[t].calls # <<>>
               /\ task[t].calls[1].fn = "i2c_driver_delete"
               /\ task[t].pc = "cmd_begin"
                    => CallNames(t) = <<"i2c_driver_delete", "i2c_param_config",
                                        "i2c_driver_install">>)
    /\ [][\A t \in Tasks :
            /\ InCall(t) /\ task[t].pc \in {"setup", "param_config", "install"}
            /\ task'[t] # task[t] /\ task'[t].pc # "cmd_begin"
            => /\ configs' = configs
               /\ SetupError(task'[t])
                    => ~cfg_equal(task[t].a.dev.cfg, configs'[task[t].a.dev.port])]_vars

\* A call whose i2c_driver_install failed is followed, on the same port and
\* with the same configuration, by a call that has reconfigured the port.
C16_Witness ==
    \E t \in Tasks :
        /\ InCall(t) /\ task[t].pc = "cmd_begin"
        /\ task[t].prev.valid /\ ~task[t].prev.ok
        /\ task[t].prev.cfg = task[t].a.dev.cfg
        /\ task[t].a.dev.cfg = CfgB
        /\ Len(task[t].calls) = 3

\* The task is about to compare with configs[port] or to make a driver call
\* for the port, in a transaction or in i2cdev_done.
UsingPort(t) ==
    \/ InCall(t) /\ task[t].pc \in {"setup", "param_config", "install", "cmd_begin"}
    \/ InDone(t) /\ task[t].pc = "drv_delete"

\* C17: a task that accesses configs[port] or is at i2c_driver_delete,
\* i2c_param_config, i2c_driver_install or i2c_master_cmd_begin for the
\* port, in i2c_dev_read, i2c_dev_write or i2cdev_done, is the holder of the
\* live mutex locks[port] names.
C17_HolderOnly ==
    \A t \in Tasks :
        UsingPort(t)
            => /\ locks[PortOf(t)] # 0
               /\ mutex[locks[PortOf(t)]].st = "alive"
               /\ mutex[locks[PortOf(t)]].holder = t

\* i2cdev_done has given the lock of port p and has not destroyed it yet.
DoneWindow(t, p) == InDone(t) /\ task[t].pc = "vdelete" /\ task[t].i = p

\* C19: the step in which i2cdev_done destroys the mutex of a port finds it
\* held by nobody and with no read or write waiting in SEMAPHORE_TAKE for
\* it, and no read or write acquires the mutex between the give and the
\* destruction.
C19_NoDestroyInUse ==
    [][\A t \in Tasks : \A p \in Ports :
          DoneWindow(t, p)
              => /\ task'[t].pc = "check"
                    => /\ mutex[locks[p]].holder = NoTask
                       /\ \A u \in Tasks \ {t} :
                             ~(InCall(u) /\ OnPort(u, p) /\ task[u].pc = "take")
                 /\ \A u \in Tasks \ {t} :
                       InCall(u) /\ OnPort(u, p) /\ task[u].pc = "take"
                           => task'[u].pc # "setup"]_vars

\* C18: whenever a read or write is at i2c_master_cmd_begin, the driver of
\* its port is installed and the parameters last applied to it are
\* field-wise equal to the configuration of the calling device.
C18_DriverMatchesDevice ==
    \A t \in Tasks :
        Transferring(t)
            => /\ driver[task[t].a.dev.port].installed
               /\ cfg_equal(driver[task[t].a.dev.port].hw, task[t].a.dev.cfg)

Dangling(p) == locks[p] # 0 /\ mutex[locks[p]].st = "deleted"

\* C20: when i2cdev_done returns, with ESP_OK or early with a lock timeout,
\* no port is left with a handle of a destroyed mutex, and an i2cdev_done
\* that takes or gives the lock of a port does so on a handle that was not
\* destroyed before.
C20_NoDanglingHandle ==
    \A t \in Tasks :
        InDone(t)
            => /\ task[t].pc = "ret" => \A p \in Ports : ~Dangling(p)
               /\ task[t].pc \in {"take", "give"} => ~Dangling(task[t].i)

====
